---- MODULE Spec2Model ----
(***************************************************************************)
(* Verification model of the beekeeper checks.                             *)
(*                                                                         *)
(*   Spec      chunkrepair.Check.Run (RecoveryCheck), src/unnamed/part_000 *)
(*   FairSpec  the same, with the fairness of sequential execution         *)
(*   SmokeSpec smoke.Check.Run (RoundTripCheck), src/pkg/check/smoke,      *)
(*             two runs with one seed, one cluster and the same network    *)
(*             outcomes, side by side                                      *)
(*   ReplSpec  pushsync.checkLightChunks (ReplicationCheck),               *)
(*             src/pkg/check/pushsync/check_lightnode.go                   *)
(*   DistSpec  one call of distance on a pair of addresses                 *)
(*   SmokeFairSpec  SmokeSpec with every call and wait of Run returning    *)
(*   RunsSpec  a call of either Run, on options of any type                *)
(*   K8sSpec   k8s.NewClient, as exercised by src/pkg/k8s/k8s_test.go      *)
(*                                                                         *)
(* Addresses are byte sequences; the XOR distance is computed bytewise and *)
(* read big-endian, as distanceRaw/distance do.  Every call to a node or   *)
(* to the cluster is a step whose outcome (success, error, returned data)  *)
(* is chosen nondeterministically.  Go map iteration order is unspecified, *)
(* so every `range` over a map is modelled with an arbitrary order.        *)
(***************************************************************************)
EXTENDS Integers, Sequences, FiniteSets, TLC

\* ------------------------------------------------------------------ bounds
MaxNodes == 4          \* largest node group drawn
MaxChunks == 2         \* Options.NumberOfChunksToRepair of the modelled run
CallCap == 12          \* the call counters of the model saturate here
MaxSeed == 2           \* seeds 0..MaxSeed
MaxClients == 3        \* largest cluster of the smoke check
MaxIters == 2          \* iterations the smoke check starts before its deadline
MaxAddrLen == 2        \* longest address handed to distance

\* ------------------------------------------------------- program constants
maxIterations == 10
minNodesRequired == 3

\* ------------------------------------------------------------ value pools
\* One-byte overlay addresses; several pairs are at the maximal distance 0xFF.
AddrPool == << <<0>>, <<60>>, <<127>>, <<128>>, <<255>> >>
\* Chunk payloads a random generator may produce.
DataPool == {1, 2, 3, 4}
NoChunk == [data |-> 0, addr |-> <<>>]
ZeroAddress == <<>>
Nil == 0

Min(a, b) == IF a < b THEN a ELSE b
Bump(n) == Min(n + 1, CallCap)

\* ------------------------------------------------------------ AddressSpace
RECURSIVE XorBits(_, _, _)
XorBits(a, b, n) ==
  IF n = 0 THEN 0
  ELSE (((a % 2) + (b % 2)) % 2) + 2 * XorBits(a \div 2, b \div 2, n - 1)

\* The XOR of two bytes, tabulated once.
XorTable == [a \in 0..255 |-> [b \in 0..255 |-> XorBits(a, b, 8)]]

\* Mutant: the bytes are subtracted modulo 256.
SubByte(a, b) == (a + 256 - b) % 256

XorByte(a, b) == XorTable[a][b]

\* Mutant: only a longer first operand is refused.
distanceRawPrefix(x, y) ==
  IF Len(x) > Len(y)
    THEN [err |-> TRUE, val |-> <<>>]
    ELSE [err |-> FALSE, val |-> [k \in 1..Len(x) |-> XorByte(x[k], y[k])]]

\* distanceRaw: the bytewise XOR, or an error when the lengths differ.
distanceRaw(x, y) ==
  IF Len(x) # Len(y)
    THEN [err |-> TRUE, val |-> <<>>]
    ELSE [err |-> FALSE, val |-> [k \in 1..Len(x) |-> XorByte(x[k], y[k])]]

\* big.Int.SetBytes: the bytes read as a big-endian unsigned integer.
RECURSIVE SetBytes(_)
SetBytes(bs) ==
  IF Len(bs) = 0 THEN 0
  ELSE 256 * SetBytes(SubSeq(bs, 1, Len(bs) - 1)) + bs[Len(bs)]

\* The nil *big.Int that distance returns next to an error.
NoDistance == -1

distance(x, y) ==
  LET raw == distanceRaw(x, y)
  IN IF raw.err THEN [err |-> TRUE, val |-> NoDistance]
     ELSE [err |-> FALSE, val |-> SetBytes(raw.val)]

\* ---------------------------------------------------------------- Topology
\* The iteration orders of a map with n entries.
Orders(n) == {o \in [1..n -> 1..n] : \A p, q \in 1..n : p # q => o[p] # o[q]}

\* Mutant: the comparison result is tested against 0 instead of 1.
CmpNonZero(a, b) == a # b

\* currDist.Cmp(dist) == 1
StrictlyGreater(a, b) == a > b

\* findFarthestNodes: the nested scan, visiting the entries in the order
\* `outer` in the outer loop and `inner` in the inner loops; the running
\* maximum starts at 0 with both addresses unset.
RECURSIVE farScan(_, _, _, _, _)
farScan(ov, outer, inner, k, acc) ==
  LET n == Len(ov)
  IN IF k > n * n \/ acc.err THEN acc
     ELSE LET a == ov[outer[((k - 1) \div n) + 1]]
              c == ov[inner[((k - 1) % n) + 1]]
              d == distance(a, c)
          IN IF a = c THEN farScan(ov, outer, inner, k + 1, acc)
             ELSE IF d.err
               THEN [err |-> TRUE, a |-> ZeroAddress, c |-> ZeroAddress, dist |-> 0]
             ELSE IF StrictlyGreater(d.val, acc.dist)
               THEN farScan(ov, outer, inner, k + 1,
                            [err |-> FALSE, a |-> a, c |-> c, dist |-> d.val])
             ELSE farScan(ov, outer, inner, k + 1, acc)

findFarthestNodes(ov, outer, inner) ==
  farScan(ov, outer, inner, 1,
          [err |-> FALSE, a |-> ZeroAddress, c |-> ZeroAddress, dist |-> 0])

\* Content addressing: the address derived from a chunk's payload.
ChunkAddress(d) == <<(d * 61) % 256>>

\* bee.Chunk.ClosestNodeFromMap: the node minimising the distance to the
\* target among those whose address is not excluded; Nil when none is left.
ClosestNodeFromMap(ov, target, excluded) ==
  LET cands == {n \in 1..Len(ov) : ov[n] \notin excluded}
  IN IF cands = {} THEN Nil
     ELSE CHOOSE n \in cands :
            \A m \in cands :
              \/ distance(ov[n], target).val < distance(ov[m], target).val
              \/ distance(ov[n], target).val = distance(ov[m], target).val /\ n <= m

\* bytes.Equal
BytesEqual(x, y) == x = y

\* ------------------------------------------------------------- snapshots
\* The entries of AddrPool at the indices S, in ascending index order: node
\* identifiers are the positions 1..n of the snapshot (overlay addresses are
\* unique per node; iteration orders are modelled separately).
SortedSeq(S) ==
  CHOOSE s \in [1..Cardinality(S) -> S] : \A p, q \in 1..Cardinality(S) : p < q => s[p] < s[q]

Snapshots ==
  {[k \in 1..Cardinality(S) |-> AddrPool[SortedSeq(S)[k]]] :
     S \in {T \in SUBSET (1..Len(AddrPool)) : Cardinality(T) <= MaxNodes}}

\* The "try again later" error text of a chunk download, and other errors.
NoError == <<>>
TryAgainLater(addr) == <<"download chunk", addr, "try again later">>
DownloadErrors ==
  {TryAgainLater(ChunkAddress(d)) : d \in DataPool}
    \cup {<<"download chunk", ChunkAddress(d), "not found">> : d \in DataPool}

\* ------------------------------------------------------------------ state
VARIABLES
  overlays,    \* the node group: node id -> overlay address
  pc,          \* position of Run
  result,      \* "running", "nil" or the error Run returned
  i,           \* index of the chunk being repaired
  overlayA, overlayB, overlayC,   \* getNodes locals
  cand,        \* the chunk getRandomChunkAndClosestNode generated last
  chunk,       \* the chunk of this iteration
  nodeA, nodeB, nodeC,            \* the clients Run uses (Nil: nil pointer)
  count,       \* the polling loops' counter
  removed,     \* nodes on which RemoveChunk succeeded in this iteration
  lastData,    \* bytes the last successful download from C returned in this
               \* iteration (0: none yet)
  repaired,    \* RepairedCounter (sum over labels)
  hasCalls,    \* HasChunk calls of the wait for B, kept until the download
               \* from C that follows the wait (saturating)
  dlCalls,     \* DownloadChunk calls on C after the re-upload (saturating)
  triggered,   \* the recovery-trigger download was issued in this iteration
  trigErr,     \* the error that download returned (NoError: none)
  reuploaded   \* the upload of the chunk to A after the deletion was issued

\* smoke.Check.Run; the names ending in 2 belong to the second run.
VARIABLES
  spc,         \* position of Run
  sresult,     \* "running", "nil", an error, or "panic"
  seed,        \* Options.RndSeed
  clusterSize, \* cluster.Size()
  ctxDone,     \* the run context is cancelled or past its deadline
  iter,        \* the loop variable i
  rnd, rnd2,   \* values drawn so far from the seeded generator
  txIdx, rxIdx, txIdx2, rxIdx2,
  txData, txData2,
  retries,
  txDuration, rxDuration,   \* 0, or 1 for any positive duration
  address,     \* the reference the upload returned
  rxData,
  rxOnErrWait, \* Options.RxOnErrWait: 0, or a positive wait
  uploadAttempts, uploadErrors, downloadAttempts, downloadErrors,
  downloadMismatch,   \* what the iteration under way added to the metrics
  lastOutcome, \* how the previous iteration ended ("none": there was none)
  rxAddress,   \* the address of the latest test.download call of the iteration
  waited       \* time.Sleep(o.NodesSyncWait) returned in this iteration

\* A call of k8s.NewClient(s, o, logger).
VARIABLES
  kpc,        \* position of NewClient
  kOptions,   \* o: NilOptions, or the ClientOptions pointed to
  kFailing,   \* the functions of s built with mock.NewClient(true)
  kPath,      \* the kubeconfig path handed to FlagString
  kClient,    \* the client returned (NilClient: nil)
  kErr        \* the error returned (NoError: nil)

k8Vars == <<kpc, kOptions, kFailing, kPath, kClient, kErr>>

\* The argument opts (an interface{}) of the Run under way.
VARIABLES
  opts      \* the dynamic type of the value

argVars == <<opts>>

\* A call of distance(x, y).
VARIABLES
  dpc,      \* "idle", "call" or "returned"
  argX, argY,
  dist,     \* what distance(argX, argY) returned
  distRev,  \* what distance(argY, argX) returned
  farPair   \* what findFarthestNodes returned on FarSnapshot

dsVars == <<dpc, argX, argY, dist, distRev, farPair>>

\* pushsync.checkLightChunks (ReplicationCheck).
VARIABLES
  flatOverlays,  \* cluster.FlattenOverlays: node id -> overlay address
  uploaderNode,  \* the node `uploader` is, as a node id of flatOverlays
                 \* (Nil: its overlay is not among them, its node group
                 \* being one of o.ExcludeNodeGroups)
  ppc,           \* position of checkLightChunks
  presult,       \* "running", "nil" or the error returned
  lctxDone,      \* the context handed to checkLightChunks is cancelled
  uploaderIdx,   \* the loop variable i of the uploader loop
  chunkIdx,      \* the loop variable j of the chunk loop
  lightChunk,    \* the chunk of this pass of the chunk loop
  uploadTries,   \* UploadChunk calls made for this chunk
  closestName,   \* the node ClosestNodeFromMap(overlays) named (Nil: none)
  polls,         \* HasChunk calls made on the closest node for this chunk
  synced,        \* the variable synced
  closestSynced, \* the closest node answered that it has the chunk
  skipPeers,     \* the slice skipPeers
  scanned,       \* passes of `for range overlays` made for this chunk
  queried,       \* the nodes asked by the scan, in the order asked
  holder,        \* the node the scan accepted for this chunk (Nil: none)
  startedChunks, \* chunks generated so far
  passedChunks   \* chunks accepted as replicated so far

psVars == <<flatOverlays, uploaderNode, ppc, presult, lctxDone, uploaderIdx, chunkIdx,
            lightChunk, uploadTries, closestName, polls, synced, closestSynced,
            skipPeers, scanned, queried, holder, startedChunks, passedChunks>>

rcVars == <<overlays, pc, result, i, overlayA, overlayB, overlayC, cand, chunk,
            nodeA, nodeB, nodeC, count, removed, lastData, repaired, hasCalls,
            dlCalls, triggered, trigErr, reuploaded>>

orderVars == <<rxAddress, waited>>

metricVars == <<uploadAttempts, uploadErrors, downloadAttempts, downloadErrors,
                downloadMismatch>>

smVars == <<spc, sresult, seed, clusterSize, ctxDone, iter, rnd, rnd2, txIdx,
            rxIdx, txIdx2, rxIdx2, txData, txData2, retries, txDuration,
            rxDuration, address, rxData, rxOnErrWait, metricVars, lastOutcome, orderVars>>

vars == <<rcVars, smVars, psVars, dsVars, argVars, k8Vars>>

roleVars == <<overlayA, overlayB, overlayC, cand, chunk, nodeA, nodeB, nodeC>>
histVars == <<removed, lastData, hasCalls, dlCalls, triggered, trigErr, reuploaded>>

\* The smoke check is not running.
SmokeIdle ==
  /\ spc = "idle" /\ sresult = "running"
  /\ seed = 0 /\ clusterSize = 0 /\ ctxDone = FALSE /\ iter = 0
  /\ rnd = 0 /\ rnd2 = 0
  /\ txIdx = 0 /\ rxIdx = 0 /\ txIdx2 = 0 /\ rxIdx2 = 0
  /\ txData = <<>> /\ txData2 = <<>>
  /\ retries = 0 /\ txDuration = 0 /\ rxDuration = 0
  /\ address = ZeroAddress /\ rxData = <<>>
  /\ rxOnErrWait = 0 /\ lastOutcome = "none"
  /\ rxAddress = ZeroAddress /\ waited = FALSE
  /\ uploadAttempts = 0 /\ uploadErrors = 0
  /\ downloadAttempts = 0 /\ downloadErrors = 0 /\ downloadMismatch = 0

NilOptions == [nil |-> TRUE]
NilClient == [nil |-> TRUE]

\* NewClient is not being called.
K8sIdle ==
  /\ kpc = "idle" /\ kOptions = NilOptions /\ kFailing = {} /\ kPath = ""
  /\ kClient = NilClient /\ kErr = NoError

\* distance is not being called.
DistIdle ==
  /\ dpc = "idle" /\ argX = <<>> /\ argY = <<>>
  /\ dist = [err |-> FALSE, val |-> 0] /\ distRev = [err |-> FALSE, val |-> 0]
  /\ farPair = [err |-> FALSE, a |-> ZeroAddress, c |-> ZeroAddress, dist |-> 0]

\* The replication check is not running.
ReplIdle ==
  /\ flatOverlays = <<>> /\ ppc = "idle" /\ presult = "running"
  /\ uploaderNode = Nil
  /\ lctxDone = FALSE /\ uploaderIdx = 0 /\ chunkIdx = 0
  /\ lightChunk = NoChunk /\ uploadTries = 0
  /\ closestName = Nil /\ polls = 0 /\ synced = FALSE /\ closestSynced = FALSE
  /\ skipPeers = <<>> /\ scanned = 0 /\ queried = <<>> /\ holder = Nil
  /\ startedChunks = 0 /\ passedChunks = 0

RecoveryInit ==
  /\ overlays \in Snapshots
  /\ pc = "start"
  /\ result = "running"
  /\ i = 0
  /\ overlayA = ZeroAddress /\ overlayB = ZeroAddress /\ overlayC = ZeroAddress
  /\ cand = NoChunk /\ chunk = NoChunk
  /\ nodeA = Nil /\ nodeB = Nil /\ nodeC = Nil
  /\ count = 0
  /\ removed = {}
  /\ lastData = 0
  /\ repaired = 0
  /\ hasCalls = 0 /\ dlCalls = 0
  /\ triggered = FALSE /\ reuploaded = FALSE
  /\ trigErr = NoError

\* What a caller may hand to Run as opts.
OptionsTypes == {"chunkrepair.Options", "smoke.Options", "pushsync.Options", "nil"}

Init ==
  RecoveryInit /\ SmokeIdle /\ ReplIdle /\ DistIdle /\ K8sIdle /\ opts \in OptionsTypes

\* Run returns err.
Return(err) == pc' = "done" /\ result' = err

\* A step to position p that touches nothing else.
Goto(p) ==
  /\ pc' = p
  /\ UNCHANGED <<overlays, result, i, roleVars, count, histVars, repaired>>

\* A failing call: Run returns the error, nothing else changes.
Fail(err) ==
  /\ Return(err)
  /\ UNCHANGED <<overlays, i, roleVars, count, histVars, repaired>>

\* The loop header `for i := 0; i < o.NumberOfChunksToRepair; i++`.
LoopHead(n) == IF n < MaxChunks THEN "getNodes" ELSE "done"

\* Mutant: the type assertion accepts every value.
IsOptionsAlways(v, type) == TRUE

\* `o, ok := opts.(Options)`: ok.
IsOptions(v, type) == v = type

\* Run, lines 69-82: options, generators, node group, loop entry.
RunStart ==
  /\ pc = "start"
  /\ IF ~IsOptions(opts, "chunkrepair.Options")
       THEN Fail("errInvalidOptions")
       ELSE \/ Fail("errNodeGroup")
            \/ /\ pc' = LoopHead(0)
               /\ result' = IF LoopHead(0) = "done" THEN "nil" ELSE result
               /\ UNCHANGED <<overlays, i, roleVars, count, histVars, repaired>>

\* Mutant: the size test lets a group of minNodesRequired - 1 nodes pass.
TooFewNodesOffByOne(n) == n < minNodesRequired - 1

\* getNodes, line 203: len(overlays) < minNodesRequired
TooFewNodes(n) == n < minNodesRequired

\* getNodes, lines 198-205: the overlays and the size check.
GetOverlays ==
  /\ pc = "getNodes"
  /\ \/ Fail("errOverlays")
     \/ IF TooFewNodes(Len(overlays))
          THEN Fail("errLessNodesForTest")
          ELSE /\ pc' = "findFarthest"
               /\ lastData' = 0
               /\ UNCHANGED <<overlays, result, i, roleVars, count, removed, hasCalls,
                              dlCalls, triggered, trigErr, reuploaded, repaired>>

\* getNodes, lines 207-211.
FindFarthest ==
  /\ pc = "findFarthest"
  /\ \E outer \in Orders(Len(overlays)), inner \in Orders(Len(overlays)) :
       LET far == findFarthestNodes(overlays, outer, inner)
       IN IF far.err
            THEN Fail("errDistance")
            ELSE /\ overlayA' = far.a
                 /\ overlayC' = far.c
                 /\ pc' = "drawB"
                 /\ UNCHANGED <<overlays, result, i, overlayB, cand, chunk, nodeA,
                                nodeB, nodeC, count, histVars, repaired>>

\* getRandomChunkAndClosestNode: a fresh chunk with its address set, and the
\* overlay closest to it.
getRandomChunkAndClosestNode(ov, d) ==
  LET c == [data |-> d, addr |-> ChunkAddress(d)]
      n == ClosestNodeFromMap(ov, c.addr, {})
  IN [chunk |-> c, closest |-> IF n = Nil THEN ZeroAddress ELSE ov[n]]

\* Mutant: only the collision with A is tested.
CollidesOnlyA(closest, a, c) == BytesEqual(closest, a)

\* The test of lines 220-225: the draw collides with A or C.
Collides(closest, a, c) == BytesEqual(closest, a) \/ BytesEqual(closest, c)

\* getNodes, lines 215-230: one pass of the loop that finds node B.
DrawB ==
  /\ pc = "drawB"
  /\ \/ Fail("errChunk")
     \/ \E d \in DataPool :
          LET got == getRandomChunkAndClosestNode(overlays, d)
          IN /\ cand' = got.chunk
             /\ IF Collides(got.closest, overlayA, overlayC)
                  THEN /\ pc' = "drawB"
                       /\ UNCHANGED <<overlayB, chunk>>
                  ELSE /\ overlayB' = got.closest
                       /\ chunk' = got.chunk
                       /\ pc' = "resolve"
             /\ UNCHANGED <<overlays, result, i, overlayA, overlayC, nodeA, nodeB,
                            nodeC, count, histVars, repaired>>

\* The client whose overlay equals addr, Nil when there is none.
ClientOf(ov, addr) ==
  IF \E n \in 1..Len(ov) : ov[n] = addr
    THEN CHOOSE n \in 1..Len(ov) : ov[n] = addr
    ELSE Nil

\* getNodes, lines 236-260: the clients of the three overlays.
ResolveClients ==
  /\ pc = "resolve"
  /\ \/ Fail("errNodesClients")
     \/ Fail("errAddresses")
     \/ /\ nodeA' = ClientOf(overlays, overlayA)
        /\ nodeB' = ClientOf(overlays, overlayB)
        /\ nodeC' = ClientOf(overlays, overlayC)
        /\ pc' = "overlayA"
        /\ UNCHANGED <<overlays, result, i, overlayA, overlayB, overlayC, cand,
                       chunk, count, histVars, repaired>>

\* Run, lines 88-91.
OverlayOfA ==
  /\ pc = "overlayA"
  /\ IF nodeA = Nil
       THEN Fail("panic")   \* nil pointer dereference
       ELSE Fail("errOverlay") \/ Goto("createBatch")

\* Run, lines 93-97.
CreatePostageBatch ==
  /\ pc = "createBatch"
  /\ Fail("errBatch") \/ Goto("uploadA")

\* Run, lines 99-105: the upload to A, then count := 0.  The reference the
\* node returns is the chunk's address.
UploadToA ==
  /\ pc = "uploadA"
  /\ \/ Fail("errUpload")
     \/ /\ pc' = "pollB"
        /\ count' = 0
        /\ UNCHANGED <<overlays, result, i, roleVars, histVars, repaired>>

\* The test of lines 132 and 174: the downloaded bytes are the chunk's.
\* Mutant: the comparison is dropped.
DataMatchesAlways(got, want) == TRUE

DataMatches(got, want) == BytesEqual(got, want)

\* The bound test of both polling loops, lines 107 and 161.
Exhausted(c) == c > maxIterations

\* Run, lines 106-109: the head of the loop that waits for B.
PollBHead ==
  /\ pc = "pollB"
  /\ IF Exhausted(count) THEN Fail("errPollB") ELSE Goto("hasB")

\* Run, lines 114-124: one HasChunk call on B.
HasChunkB ==
  /\ pc = "hasB"
  /\ IF nodeB = Nil
       THEN Fail("panic")   \* nil pointer dereference
       ELSE /\ hasCalls' = Bump(hasCalls)
            /\ \E out \in {"error", "absent", "present"} :
                 /\ count' = IF out = "error" THEN count + 1 ELSE count
                 /\ pc' = IF out = "present" THEN "downloadC1" ELSE "pollB"
            /\ UNCHANGED <<overlays, result, i, roleVars, removed, lastData, dlCalls,
                           triggered, trigErr, reuploaded, repaired>>

\* Run, lines 127-134: the download from C before the deletion.
DownloadC1 ==
  /\ pc = "downloadC1"
  /\ \/ Fail(IF nodeC = Nil THEN "panic" ELSE "errDownload")
     \/ \E data \in DataPool :
          /\ nodeC # Nil
          /\ lastData' = data
          /\ hasCalls' = 0
          /\ IF ~DataMatches(data, chunk.data)
               THEN Return("errData")
               ELSE pc' = "delete" /\ UNCHANGED result
          /\ UNCHANGED <<overlays, i, roleVars, count, removed, dlCalls,
                         triggered, trigErr, reuploaded, repaired>>

\* Mutant: the loop over the clients is left after its first pass.
FirstRemoved(rem, ov) == rem # {}

\* The loop of lines 280-285 has visited every client.
AllRemoved(rem, ov) == rem = 1..Len(ov)

\* deleteChunkFromAllNodes, lines 274-287: the clients are visited in map
\* order; a failing RemoveChunk ends Run.
deleteChunkFromAllNodes ==
  /\ pc = "delete"
  /\ \/ removed = {} /\ Fail("errNodesClients")
     \/ IF AllRemoved(removed, overlays)
          THEN Goto("trigger")
          ELSE \E n \in (1..Len(overlays)) \ removed :
                 \/ Fail("errRemove")
                 \/ /\ removed' = removed \cup {n}
                    /\ UNCHANGED <<overlays, pc, result, i, roleVars, count, lastData,
                                   hasCalls, dlCalls, triggered, trigErr, reuploaded,
                                   repaired>>

\* Mutant: any "try again later" is accepted, whatever chunk it names.
NotTriggeredAnyChunk(err, addr) == err # NoError /\ err[3] # "try again later"

\* The test of line 147: err != nil && err.Error() != errMessage.
NotTriggered(err, addr) == err # NoError /\ err # TryAgainLater(addr)

\* Run, lines 144-149: the download from C that triggers the recovery.
TriggerRecovery ==
  /\ pc = "trigger"
  /\ triggered' = TRUE
  /\ \E err \in {NoError} \cup DownloadErrors :
       /\ trigErr' = err
       /\ IF NotTriggered(err, chunk.addr)
            THEN Return("errNotTriggered")
            ELSE pc' = "reupload" /\ UNCHANGED result
  /\ UNCHANGED <<overlays, i, roleVars, count, removed, lastData, hasCalls,
                 dlCalls, reuploaded, repaired>>

\* uploadAndPinChunkToNode, lines 264-271, and count := 0 of line 158.
uploadAndPinChunkToNode ==
  \/ /\ pc = "reupload"
     /\ reuploaded' = TRUE
     /\ \/ Return("errUpload")
        \/ pc' = "pin" /\ UNCHANGED result
     /\ UNCHANGED <<overlays, i, roleVars, count, removed, lastData, hasCalls,
                    dlCalls, triggered, trigErr, repaired>>
  \/ /\ pc = "pin"
     /\ \/ Fail("errPin")
        \/ /\ pc' = "pollC"
           /\ count' = 0
           /\ UNCHANGED <<overlays, result, i, roleVars, histVars, repaired>>

\* Mutant: the exhausted loop is left with break instead of return.
PollCHeadBreaks ==
  /\ pc = "pollC"
  /\ IF Exhausted(count)
       THEN /\ pc' = LoopHead(i + 1)
            /\ i' = i + 1
            /\ result' = IF LoopHead(i + 1) = "done" THEN "nil" ELSE result
            /\ UNCHANGED <<overlays, roleVars, count, histVars, repaired>>
       ELSE Goto("downloadC3")

\* Run, lines 160-163: the head of the loop that waits for the repair.
PollCHead ==
  /\ pc = "pollC"
  /\ IF Exhausted(count) THEN Fail("errPollC") ELSE Goto("downloadC3")

\* Run, lines 165-183: one download from C after the re-upload.  On the
\* original bytes the repair metrics are recorded and the loop body ends: its
\* locals, and the observations kept per iteration, start afresh.
DownloadC3 ==
  /\ pc = "downloadC3"
  /\ \/ /\ count' = count + 1
        /\ dlCalls' = Bump(dlCalls)
        /\ pc' = "pollC"
        /\ UNCHANGED <<overlays, result, i, roleVars, removed, lastData, hasCalls,
                       triggered, trigErr, reuploaded, repaired>>
     \/ \E data \in DataPool :
          /\ lastData' = data
          /\ IF ~DataMatches(data, chunk.data)
               THEN /\ Return("errData")
                    /\ dlCalls' = Bump(dlCalls)
                    /\ UNCHANGED <<overlays, i, roleVars, count, removed, hasCalls,
                                   triggered, trigErr, reuploaded, repaired>>
               ELSE /\ repaired' = repaired + 1
                    /\ i' = i + 1
                    /\ pc' = LoopHead(i + 1)
                    /\ result' = IF LoopHead(i + 1) = "done" THEN "nil" ELSE result
                    /\ overlayA' = ZeroAddress /\ overlayB' = ZeroAddress
                    /\ overlayC' = ZeroAddress
                    /\ cand' = NoChunk /\ chunk' = NoChunk
                    /\ nodeA' = Nil /\ nodeB' = Nil /\ nodeC' = Nil
                    /\ count' = 0 /\ removed' = {}
                    /\ hasCalls' = 0 /\ dlCalls' = 0
                    /\ triggered' = FALSE /\ reuploaded' = FALSE
                    /\ trigErr' = NoError
                    /\ UNCHANGED overlays

Next ==
  \/ RunStart /\ UNCHANGED <<smVars, psVars, dsVars, argVars, k8Vars>>
  \/ GetOverlays /\ UNCHANGED <<smVars, psVars, dsVars, argVars, k8Vars>>
  \/ FindFarthest /\ UNCHANGED <<smVars, psVars, dsVars, argVars, k8Vars>>
  \/ DrawB /\ UNCHANGED <<smVars, psVars, dsVars, argVars, k8Vars>>
  \/ ResolveClients /\ UNCHANGED <<smVars, psVars, dsVars, argVars, k8Vars>>
  \/ OverlayOfA /\ UNCHANGED <<smVars, psVars, dsVars, argVars, k8Vars>>
  \/ CreatePostageBatch /\ UNCHANGED <<smVars, psVars, dsVars, argVars, k8Vars>>
  \/ UploadToA /\ UNCHANGED <<smVars, psVars, dsVars, argVars, k8Vars>>
  \/ PollBHead /\ UNCHANGED <<smVars, psVars, dsVars, argVars, k8Vars>>
  \/ HasChunkB /\ UNCHANGED <<smVars, psVars, dsVars, argVars, k8Vars>>
  \/ DownloadC1 /\ UNCHANGED <<smVars, psVars, dsVars, argVars, k8Vars>>
  \/ deleteChunkFromAllNodes /\ UNCHANGED <<smVars, psVars, dsVars, argVars, k8Vars>>
  \/ TriggerRecovery /\ UNCHANGED <<smVars, psVars, dsVars, argVars, k8Vars>>
  \/ uploadAndPinChunkToNode /\ UNCHANGED <<smVars, psVars, dsVars, argVars, k8Vars>>
  \/ PollCHead /\ UNCHANGED <<smVars, psVars, dsVars, argVars, k8Vars>>
  \/ DownloadC3 /\ UNCHANGED <<smVars, psVars, dsVars, argVars, k8Vars>>

Spec == Init /\ [][Next]_vars

\* Run is sequential code: it takes its next step as long as it has one.
FairSpec == Spec /\ WF_vars(Next)

\* ==================================================== smoke.Check.Run
\* random.PseudoGenerator(seed): the k-th value of the generator seeded s.
\* The stream is a fixed function of (s, k); nothing else is relied on.
Raw(s, k) == (((s + 2) * (k + 1) * 31) + (k * k * 17) + (s * 7)) % 1009

\* rand.Rand.Intn(n) on the generator seeded s that has produced k values.
Intn(s, k, n) == Raw(s, k) % n

\* rand.Rand.Perm(n): m[i] = m[j]; m[j] = i with j = Intn(i+1), i = 0..n-1.
RECURSIVE permLoop(_, _, _, _, _)
permLoop(s, k, n, idx, m) ==
  IF idx >= n THEN m
  ELSE LET j == Intn(s, k + idx, idx + 1)
       IN permLoop(s, k, n, idx + 1, [[m EXCEPT ![idx] = m[j]] EXCEPT ![j] = idx])

\* Mutant: each position takes a drawn value, nothing is swapped.
PermNoSwap(s, k, n) == [x \in 0..(n - 1) |-> Intn(s, k + x, x + 1)]

Perm(s, k, n) == permLoop(s, k, n, 0, [x \in 0..(n - 1) |-> 0])

\* Payloads of Options.ContentSize bytes, and what a download may return.
ContentSize == 2
Contents == [1..ContentSize -> {0, 255}]
Downloads == Contents \cup {<<0>>}

\* The recovery check is not running.
RecoveryIdle ==
  /\ overlays = <<>> /\ pc = "idle" /\ result = "running" /\ i = 0
  /\ overlayA = ZeroAddress /\ overlayB = ZeroAddress /\ overlayC = ZeroAddress
  /\ cand = NoChunk /\ chunk = NoChunk
  /\ nodeA = Nil /\ nodeB = Nil /\ nodeC = Nil
  /\ count = 0 /\ removed = {} /\ lastData = 0 /\ repaired = 0
  /\ hasCalls = 0 /\ dlCalls = 0
  /\ triggered = FALSE /\ reuploaded = FALSE /\ trigErr = NoError

\* Options.RxOnErrWait: no wait, or the default of 10 seconds.
Waits == {0, 10}

SmokeInit ==
  /\ RecoveryIdle /\ ReplIdle /\ DistIdle /\ K8sIdle
  /\ opts \in OptionsTypes
  /\ spc = "start" /\ sresult = "running"
  /\ seed \in 0..MaxSeed
  /\ clusterSize \in 0..MaxClients
  /\ rxOnErrWait \in Waits
  /\ ctxDone = FALSE /\ iter = 0
  /\ rnd = 0 /\ rnd2 = 0
  /\ txIdx = 0 /\ rxIdx = 0 /\ txIdx2 = 0 /\ rxIdx2 = 0
  /\ txData = <<>> /\ txData2 = <<>>
  /\ retries = 0 /\ txDuration = 0 /\ rxDuration = 0
  /\ address = ZeroAddress /\ rxData = <<>>
  /\ lastOutcome = "none"
  /\ rxAddress = ZeroAddress /\ waited = FALSE
  /\ uploadAttempts = 0 /\ uploadErrors = 0
  /\ downloadAttempts = 0 /\ downloadErrors = 0 /\ downloadMismatch = 0

SmokeReturn(r) == spc' = "done" /\ sresult' = r

\* Mutant: an abandoned iteration ends Run with an error.
ContinueAsReturn(how) ==
  /\ SmokeReturn("errIteration")
  /\ lastOutcome' = how
  /\ UNCHANGED <<iter, txData, txData2, retries, txDuration, rxDuration, address,
                 rxData, metricVars, orderVars>>

\* `continue`, or the end of the loop body: i++ and back to line 98.  The
\* variables declared in the body go out of scope.
Continue(how) ==
  /\ spc' = "iterTop" /\ iter' = iter + 1 /\ UNCHANGED sresult
  /\ lastOutcome' = how
  /\ txData' = <<>> /\ txData2' = <<>> /\ retries' = 0
  /\ txDuration' = 0 /\ rxDuration' = 0
  /\ address' = ZeroAddress /\ rxData' = <<>>
  /\ rxAddress' = ZeroAddress /\ waited' = FALSE
  /\ uploadAttempts' = 0 /\ uploadErrors' = 0
  /\ downloadAttempts' = 0 /\ downloadErrors' = 0 /\ downloadMismatch' = 0

\* The run context is cancelled or its deadline passes.
Deadline ==
  /\ spc \notin {"idle", "done"}
  /\ ~ctxDone
  /\ ctxDone' = TRUE
  /\ UNCHANGED <<spc, sresult, seed, clusterSize, iter, rnd, rnd2, txIdx, rxIdx,
                 txIdx2, rxIdx2, txData, txData2, retries, txDuration, rxDuration,
                 address, rxData, rxOnErrWait, metricVars, lastOutcome, orderVars>>

\* Run, lines 72-96: the generator, the clients, the warm-up.
SmokeStart ==
  /\ spc = "start"
  /\ IF ~IsOptions(opts, "smoke.Options")
       THEN SmokeReturn("errInvalidOptions")
       ELSE \/ SmokeReturn("errNodesClients")
            \/ spc' = "iterTop" /\ UNCHANGED sresult
  /\ UNCHANGED <<seed, clusterSize, ctxDone, iter, rnd, rnd2, txIdx, rxIdx, txIdx2,
                 rxIdx2, txData, txData2, retries, txDuration, rxDuration, address,
                 rxData, rxOnErrWait, metricVars, lastOutcome, orderVars>>

\* Mutant: the done context is never noticed.
CancelledNever(done) == FALSE

\* Run, lines 99-104 and 137-141: `select { case <-ctx.Done(): return nil;
\* default: }` takes the first case exactly when the context is done.
Cancelled(done) == done

\* Run, lines 111-113: txIdx == rxIdx
SamePeer(tx, rx) == tx = rx

\* Run, lines 98-120: the cancellation test, then the pair drawn from a
\* permutation of the node indices.
SelectPair ==
  /\ spc = "iterTop"
  /\ IF Cancelled(ctxDone)
       THEN /\ SmokeReturn("nil")
            /\ UNCHANGED <<iter, rnd, rnd2, txIdx, rxIdx, txIdx2, rxIdx2, txData,
                           txData2, retries, txDuration, rxDuration, address,
                           rxData, metricVars, lastOutcome, orderVars>>
       ELSE /\ iter < MaxIters
            /\ rnd' = rnd + clusterSize
            /\ rnd2' = rnd2 + clusterSize
            /\ IF clusterSize < 2
                 THEN \* perm[0] or perm[1]: index out of range
                      /\ SmokeReturn("panic")
                      /\ UNCHANGED <<iter, txIdx, rxIdx, txIdx2, rxIdx2, txData,
                                     txData2, retries, txDuration, rxDuration,
                                     address, rxData, metricVars, lastOutcome, orderVars>>
                 ELSE LET perm == Perm(seed, rnd, clusterSize)
                          perm2 == Perm(seed, rnd2, clusterSize)
                      IN /\ txIdx' = perm[0] /\ rxIdx' = perm[1]
                         /\ txIdx2' = perm2[0] /\ rxIdx2' = perm2[1]
                         /\ IF SamePeer(perm[0], perm[1])
                              THEN Continue("samePeer")
                              ELSE /\ spc' = "content"
                                   /\ UNCHANGED <<sresult, iter, txData, txData2,
                                                  retries, txDuration, rxDuration,
                                                  address, rxData, metricVars,
                                                  lastOutcome, orderVars>>
  /\ UNCHANGED <<seed, clusterSize, ctxDone, rxOnErrWait>>

\* Run, lines 130-134: the payload is read from crypto/rand, which takes no
\* seed: each run reads its own bytes.
GenerateContent ==
  /\ spc = "content"
  /\ \/ Continue("noContent")
     \/ /\ \E d \in Contents, d2 \in Contents : txData' = d /\ txData2' = d2
        /\ spc' = "upload" /\ retries' = 3
        /\ UNCHANGED <<sresult, iter, txDuration, rxDuration, address, rxData,
                       metricVars, lastOutcome, orderVars>>
  /\ UNCHANGED <<seed, clusterSize, ctxDone, rnd, rnd2, txIdx, rxIdx, txIdx2,
                 rxIdx2, rxOnErrWait>>

\* Mutant: the loop goes on while retries are left, success or not.
RetryWhileLeft(duration, left) == left > 0

\* The condition of both retry loops: `duration == 0 && retries > 0`.
Retry(duration, left) == duration = 0 /\ left > 0

\* Mutant: the iteration goes on to the download whatever the uploads did.
UploadFailedNever(duration) == FALSE

\* Run, lines 154-156: `if txDuration == 0 { continue }`
UploadFailed(duration) == duration = 0

\* Run, lines 136-160: one pass of the upload loop (its condition, the
\* cancellation test, the attempt), or its exit (lines 154-162).  A
\* successful upload takes a positive time.
Upload ==
  /\ spc = "upload"
  /\ IF Retry(txDuration, retries)
       THEN IF Cancelled(ctxDone)
              THEN /\ SmokeReturn("nil")
                   /\ UNCHANGED <<iter, txData, txData2, retries, txDuration,
                                  rxDuration, address, rxData, metricVars, lastOutcome, orderVars>>
              ELSE /\ retries' = retries - 1
                   /\ uploadAttempts' = uploadAttempts + 1
                   /\ \/ /\ txDuration' = 0 /\ address' = ZeroAddress
                         /\ uploadErrors' = uploadErrors + 1
                      \/ /\ txDuration' = 1 /\ address' = txData
                         /\ UNCHANGED uploadErrors
                   /\ UNCHANGED <<spc, sresult, iter, txData, txData2, rxDuration,
                                  rxData, downloadAttempts, downloadErrors,
                                  downloadMismatch, lastOutcome, orderVars>>
       ELSE IF UploadFailed(txDuration)
              THEN Continue("uploadFailed")
              ELSE /\ spc' = "download" /\ retries' = 3
                   /\ waited' = TRUE
                   /\ UNCHANGED <<sresult, iter, txData, txData2, txDuration,
                                  rxDuration, address, rxData, metricVars,
                                  lastOutcome, rxAddress>>
  /\ UNCHANGED <<seed, clusterSize, ctxDone, rnd, rnd2, txIdx, rxIdx, txIdx2, rxIdx2,
                 rxOnErrWait>>

\* Run, lines 162-209: one pass of the download loop, or its exit.  The
\* select of lines 163-167 takes the case that is ready: the done context,
\* or the timer once RxOnErrWait has passed; with no wait at all and the
\* context done both are ready and either is taken.  A download that
\* returned takes a positive time.
Download ==
  /\ spc = "download"
  /\ IF Retry(rxDuration, retries)
       THEN \/ /\ ctxDone
               /\ SmokeReturn("nil")
               /\ UNCHANGED <<iter, txData, txData2, retries, txDuration, rxDuration,
                              address, rxData, metricVars, lastOutcome, orderVars>>
            \/ /\ ~ctxDone \/ rxOnErrWait <= 0
               /\ retries' = retries - 1
               /\ downloadAttempts' = downloadAttempts + 1
               /\ \/ /\ rxDuration' = 0 /\ rxData' = <<>>
                     /\ downloadErrors' = downloadErrors + 1
                     /\ UNCHANGED downloadMismatch
                  \/ \E d \in Downloads :
                       /\ rxDuration' = 1 /\ rxData' = d
                       /\ downloadMismatch' =
                            IF BytesEqual(d, txData) THEN downloadMismatch
                            ELSE downloadMismatch + 1
                       /\ UNCHANGED downloadErrors
               /\ rxAddress' = address
               /\ UNCHANGED <<spc, sresult, iter, txData, txData2, txDuration, address,
                              uploadAttempts, uploadErrors, lastOutcome, waited>>
       ELSE Continue(IF rxDuration = 0 THEN "downloadFailed"
                     ELSE IF BytesEqual(rxData, txData) THEN "match" ELSE "mismatch")
  /\ UNCHANGED <<seed, clusterSize, ctxDone, rnd, rnd2, txIdx, rxIdx, txIdx2, rxIdx2,
                 rxOnErrWait>>

SmokeNext ==
  \/ Deadline /\ UNCHANGED <<rcVars, psVars, dsVars, argVars, k8Vars>>
  \/ SmokeStart /\ UNCHANGED <<rcVars, psVars, dsVars, argVars, k8Vars>>
  \/ SelectPair /\ UNCHANGED <<rcVars, psVars, dsVars, argVars, k8Vars>>
  \/ GenerateContent /\ UNCHANGED <<rcVars, psVars, dsVars, argVars, k8Vars>>
  \/ Upload /\ UNCHANGED <<rcVars, psVars, dsVars, argVars, k8Vars>>
  \/ Download /\ UNCHANGED <<rcVars, psVars, dsVars, argVars, k8Vars>>

SmokeSpec == SmokeInit /\ [][SmokeNext]_vars

\* The steps of Run itself: every call and every wait it makes returns.
SmokeStep ==
  \/ SmokeStart /\ UNCHANGED <<rcVars, psVars, dsVars, argVars, k8Vars>>
  \/ SelectPair /\ UNCHANGED <<rcVars, psVars, dsVars, argVars, k8Vars>>
  \/ GenerateContent /\ UNCHANGED <<rcVars, psVars, dsVars, argVars, k8Vars>>
  \/ Upload /\ UNCHANGED <<rcVars, psVars, dsVars, argVars, k8Vars>>
  \/ Download /\ UNCHANGED <<rcVars, psVars, dsVars, argVars, k8Vars>>

\* The seed only selects which permutations are drawn: the runs followed to
\* their end are those of one seed.
SmokeFairInit == SmokeInit /\ seed = 0

\* Run is single-threaded and goes on whenever it can.
SmokeFairSpec == SmokeFairInit /\ [][SmokeNext]_vars /\ WF_vars(SmokeStep)

\* Either Run: a call of the recovery check's or of the smoke check's.
RunsInit == Init \/ SmokeInit
RunsNext == Next \/ SmokeNext
RunsSpec == RunsInit /\ [][RunsNext]_vars

\* ======================================= pushsync.checkLightChunks
\* Options of the modelled run: uploaders taken from the light nodes, and
\* chunks uploaded by each.
UploadNodeCount == 2
ChunksPerNode == 2

\* The addresses in a slice.
Range(sq) == {sq[k] : k \in 1..Len(sq)}

chunkVars == <<lightChunk, uploadTries, closestName, polls, synced, closestSynced,
               skipPeers, scanned, queried, holder>>

ReplInit ==
  /\ RecoveryIdle /\ SmokeIdle /\ DistIdle /\ K8sIdle
  /\ opts = "pushsync.Options"
  /\ flatOverlays \in Snapshots
  /\ uploaderNode = Nil
  /\ ppc = "start" /\ presult = "running"
  /\ lctxDone = FALSE /\ uploaderIdx = 0 /\ chunkIdx = 0
  /\ lightChunk = NoChunk /\ uploadTries = 0
  /\ closestName = Nil /\ polls = 0 /\ synced = FALSE /\ closestSynced = FALSE
  /\ skipPeers = <<>> /\ scanned = 0 /\ queried = <<>> /\ holder = Nil
  /\ startedChunks = 0 /\ passedChunks = 0

\* Mutant: a fatal condition skips to the next chunk instead of returning.
LightSkip(err) ==
  /\ ppc' = "chunkHead" /\ chunkIdx' = chunkIdx + 1
  /\ UNCHANGED <<flatOverlays, uploaderNode, presult, lctxDone, uploaderIdx, chunkVars,
                 startedChunks, passedChunks>>

\* `return err` (lines 23, 28, 40, 48, 61, 70, 83, 108).
LightFail(err) ==
  /\ ppc' = "done" /\ presult' = err
  /\ UNCHANGED <<flatOverlays, uploaderNode, lctxDone, uploaderIdx, chunkIdx, chunkVars,
                 startedChunks, passedChunks>>

\* The caller cancels the context.  checkLightChunks never looks at it; the
\* calls that are handed the context fail from then on.
LightCancel ==
  /\ ppc \notin {"idle", "done"}
  /\ ~lctxDone
  /\ lctxDone' = TRUE
  /\ UNCHANGED <<flatOverlays, uploaderNode, ppc, presult, uploaderIdx, chunkIdx, chunkVars,
                 startedChunks, passedChunks>>

\* Lines 18-29: the generators, the overlays and the clients.
LightStart ==
  /\ ppc = "start"
  /\ \/ LightFail("errOverlays")
     \/ LightFail("errNodesClients")
     \/ /\ ~lctxDone
        /\ ppc' = "nodeHead"
        /\ UNCHANGED <<flatOverlays, uploaderNode, presult, lctxDone, uploaderIdx, chunkIdx,
                       chunkVars, startedChunks, passedChunks>>

\* Lines 31-43: the next uploader, if any is left, and its batch.  The
\* uploader is the light node named; whether its overlay is in the snapshot
\* depends on the node groups the options exclude.
LightBatch ==
  /\ ppc = "nodeHead"
  /\ IF uploaderIdx >= UploadNodeCount
       THEN /\ ppc' = "done" /\ presult' = "nil"
            /\ UNCHANGED <<flatOverlays, uploaderNode, lctxDone, uploaderIdx, chunkIdx, chunkVars,
                           startedChunks, passedChunks>>
       ELSE \/ LightFail("errBatch")
            \/ /\ ~lctxDone
               /\ uploaderNode' \in {Nil} \cup (1..Len(flatOverlays))
               /\ ppc' = "chunkHead" /\ chunkIdx' = 0
               /\ UNCHANGED <<flatOverlays, presult, lctxDone, uploaderIdx, chunkVars,
                              startedChunks, passedChunks>>

\* Lines 45-51: the head of the chunk loop and the random chunk.
LightNewChunk ==
  /\ ppc = "chunkHead"
  /\ IF chunkIdx >= ChunksPerNode
       THEN /\ ppc' = "nodeHead" /\ uploaderIdx' = uploaderIdx + 1
            /\ UNCHANGED <<flatOverlays, uploaderNode, presult, lctxDone, chunkIdx, chunkVars,
                           startedChunks, passedChunks>>
       ELSE \/ LightFail("errChunk")
            \/ /\ \E d \in DataPool :
                    lightChunk' = [data |-> d, addr |-> ChunkAddress(d)]
               /\ ppc' = "upload"
               /\ startedChunks' = startedChunks + 1
               /\ uploadTries' = 0 /\ closestName' = Nil /\ polls' = 0
               /\ synced' = FALSE /\ closestSynced' = FALSE
               /\ skipPeers' = <<>> /\ scanned' = 0 /\ queried' = <<>>
               /\ holder' = Nil
               /\ UNCHANGED <<flatOverlays, uploaderNode, presult, lctxDone, uploaderIdx, chunkIdx,
                              passedChunks>>

\* Lines 53-62: one pass of the upload loop, or its exit with the last error.
LightUpload ==
  /\ ppc = "upload"
  /\ IF uploadTries < 3
       THEN \/ /\ uploadTries' = uploadTries + 1      \* err != nil
               /\ UNCHANGED <<flatOverlays, uploaderNode, ppc, presult, lctxDone, uploaderIdx,
                              chunkIdx, lightChunk, closestName, polls, synced,
                              closestSynced, skipPeers, scanned, queried, holder,
                              startedChunks, passedChunks>>
            \/ /\ ~lctxDone                           \* err == nil: break
               /\ uploadTries' = uploadTries + 1
               /\ ppc' = "closest"
               /\ UNCHANGED <<flatOverlays, uploaderNode, presult, lctxDone, uploaderIdx, chunkIdx,
                              lightChunk, closestName, polls, synced, closestSynced,
                              skipPeers, scanned, queried, holder, startedChunks,
                              passedChunks>>
       ELSE LightFail("errUpload")

\* Lines 66-73: the node closest to the chunk.
LightClosest ==
  /\ ppc = "closest"
  /\ LET n == ClosestNodeFromMap(flatOverlays, lightChunk.addr, {})
     IN IF n = Nil
          THEN LightFail("errClosest")
          ELSE /\ closestName' = n
               /\ ppc' = "pollClosest"
               /\ UNCHANGED <<flatOverlays, uploaderNode, presult, lctxDone, uploaderIdx, chunkIdx,
                              lightChunk, uploadTries, polls, synced, closestSynced,
                              skipPeers, scanned, queried, holder, startedChunks,
                              passedChunks>>

\* Mutant: the closest node is asked up to 4 times.
PollAgainFour(has, n) == ~has /\ n < 4

\* Lines 75-81: the poll goes on while the node has not answered `true` and
\* fewer than 3 calls were made.
PollAgain(has, n) == ~has /\ n < 3

\* Lines 74-88: one HasChunk call on the closest node (its error dropped:
\* `synced, _ =`), or the exit of the poll.
LightPollClosest ==
  /\ ppc = "pollClosest"
  /\ IF PollAgain(synced, polls)
       THEN /\ polls' = polls + 1
            /\ \E has \in {FALSE} \cup (IF lctxDone THEN {} ELSE {TRUE}) :
                 synced' = has /\ closestSynced' = has
            /\ UNCHANGED <<flatOverlays, uploaderNode, ppc, presult, lctxDone, uploaderIdx,
                           chunkIdx, lightChunk, uploadTries, closestName, skipPeers,
                           scanned, queried, holder, startedChunks, passedChunks>>
       ELSE IF ~synced
              THEN LightFail("errNotFoundInClosest")
              ELSE /\ skipPeers' = <<flatOverlays[closestName]>>
                   /\ ppc' = "scan"
                   /\ UNCHANGED <<flatOverlays, uploaderNode, presult, lctxDone, uploaderIdx,
                                  chunkIdx, lightChunk, uploadTries, closestName,
                                  polls, synced, closestSynced, scanned, queried,
                                  holder, startedChunks, passedChunks>>

\* Mutant: the scan accepts the node whatever it answered.
AcceptsAny(has) == TRUE

\* Line 102: if synced
Accepts(has) == has

\* Mutant: the slice is rebuilt from the address just returned.
AppendSkipAnew(peers, a) == <<a>>

\* Line 92: skipPeers = append(skipPeers, address)
AppendSkip(peers, a) == Append(peers, a)

\* Lines 90-108: one pass of `for range overlays`, or the exit of the loop.
\* HasChunk answers true, or false (with or without an error: the pass
\* goes on to the next candidate either way).
LightScan ==
  /\ ppc = "scan"
  /\ IF scanned < Len(flatOverlays)
       THEN LET n == ClosestNodeFromMap(flatOverlays, lightChunk.addr, Range(skipPeers))
                addr == IF n = Nil THEN ZeroAddress ELSE flatOverlays[n]
            IN /\ skipPeers' = AppendSkip(skipPeers, addr)
               /\ scanned' = scanned + 1
               /\ IF n = Nil
                    THEN UNCHANGED <<ppc, chunkIdx, synced, queried, holder, passedChunks>>
                    ELSE /\ queried' = Append(queried, n)
                         /\ \E has \in {FALSE} \cup (IF lctxDone THEN {} ELSE {TRUE}) :
                              /\ synced' = has
                              /\ IF Accepts(has)
                                   THEN /\ holder' = n
                                        /\ passedChunks' = passedChunks + 1
                                        /\ chunkIdx' = chunkIdx + 1
                                        /\ ppc' = "chunkHead"
                                   ELSE UNCHANGED <<ppc, chunkIdx, holder, passedChunks>>
               /\ UNCHANGED <<flatOverlays, uploaderNode, presult, lctxDone, uploaderIdx, lightChunk,
                              uploadTries, closestName, polls, closestSynced,
                              startedChunks>>
       ELSE LightFail("errNotReplicated")

ReplNext ==
  \/ LightCancel /\ UNCHANGED <<rcVars, smVars, dsVars, argVars, k8Vars>>
  \/ LightStart /\ UNCHANGED <<rcVars, smVars, dsVars, argVars, k8Vars>>
  \/ LightBatch /\ UNCHANGED <<rcVars, smVars, dsVars, argVars, k8Vars>>
  \/ LightNewChunk /\ UNCHANGED <<rcVars, smVars, dsVars, argVars, k8Vars>>
  \/ LightUpload /\ UNCHANGED <<rcVars, smVars, dsVars, argVars, k8Vars>>
  \/ LightClosest /\ UNCHANGED <<rcVars, smVars, dsVars, argVars, k8Vars>>
  \/ LightPollClosest /\ UNCHANGED <<rcVars, smVars, dsVars, argVars, k8Vars>>
  \/ LightScan /\ UNCHANGED <<rcVars, smVars, dsVars, argVars, k8Vars>>

ReplSpec == ReplInit /\ [][ReplNext]_vars

\* ============================================================ distance
\* Byte values of the addresses handed to distance, and the addresses.
ByteSamples == {0, 1, 128, 255}
Addresses == UNION {[1..k -> ByteSamples] : k \in 0..MaxAddrLen}

DistInit ==
  /\ RecoveryIdle /\ SmokeIdle /\ ReplIdle /\ K8sIdle
  /\ opts = "nil"
  /\ dpc = "call"
  /\ argX \in Addresses /\ argY \in Addresses
  /\ dist = [err |-> FALSE, val |-> 0] /\ distRev = [err |-> FALSE, val |-> 0]
  /\ farPair = [err |-> FALSE, a |-> ZeroAddress, c |-> ZeroAddress, dist |-> 0]

\* distance is called on the two addresses, in both orders.
DistCall ==
  /\ dpc = "call"
  /\ dist' = distance(argX, argY)
  /\ distRev' = distance(argY, argX)
  /\ dpc' = "returned"
  /\ UNCHANGED <<argX, argY, farPair>>

\* The overlays of a node group of three: the two addresses and a one-byte
\* address.
FarSnapshot == <<argX, argY, <<255>> >>

\* findFarthestNodes is called on that node group; the map is iterated in
\* any order.
DistFarthest ==
  /\ dpc = "returned"
  /\ \E outer \in Orders(3), inner \in Orders(3) :
       farPair' = findFarthestNodes(FarSnapshot, outer, inner)
  /\ dpc' = "scanned"
  /\ UNCHANGED <<argX, argY, dist, distRev>>

DistNext ==
  \/ DistCall /\ UNCHANGED <<rcVars, smVars, psVars, argVars, k8Vars>>
  \/ DistFarthest /\ UNCHANGED <<rcVars, smVars, psVars, argVars, k8Vars>>

DistSpec == DistInit /\ [][DistNext]_vars

\* ========================================================= k8s.NewClient
\* NewClient itself is reconstructed from TestNewClient: the error texts,
\* the options of each case and the setup functions each case supplies.
\* The setup functions are the mocks of src/mocks/k8s/k8s.go.
SetupFuncs == {"InClusterConfig", "OsUserHomeDir", "BuildConfigFromFlags", "NewForConfig"}
DefaultPath == "~/.kube/config"
KubeconfigPaths == {"", DefaultPath, "~/.kube/test_example"}
ClientOptions == {NilOptions} \cup [InCluster : BOOLEAN, KubeconfigPath : KubeconfigPaths]

\* Mutant: the mock returns its value although it was built to fail.
MockNeverFails(expectError, value) == [val |-> value, err |-> NoError]

\* A method of mocks.Client: "mock error" when built with expectError, else
\* a non-nil value.
Mock(expectError, value) ==
  IF expectError THEN [val |-> "nil", err |-> <<"mock error">>]
  ELSE [val |-> value, err |-> NoError]

\* fmt.Errorf("<step>: %w", err)
Wrap(step, err) == <<step>> \o err

ErrKubeconfigNotSet == <<"kubeconfig is not set">>

K8sInit ==
  /\ RecoveryIdle /\ SmokeIdle /\ ReplIdle /\ DistIdle
  /\ opts = "nil"
  /\ kpc = "start"
  /\ kOptions \in ClientOptions
  /\ kFailing \in SUBSET SetupFuncs
  /\ kPath = "" /\ kClient = NilClient /\ kErr = NoError

K8sReturn(client, err) ==
  /\ kpc' = "done" /\ kClient' = client /\ kErr' = err
  /\ UNCHANGED <<kOptions, kFailing, kPath>>

\* Nil options stand for {InCluster: false, KubeconfigPath: "~/.kube/config"};
\* then the branch on InCluster.
K8sDefaults ==
  /\ kpc = "start"
  /\ LET o == IF kOptions = NilOptions
               THEN [InCluster |-> FALSE, KubeconfigPath |-> DefaultPath]
               ELSE kOptions
     IN /\ kOptions' = o
        /\ kpc' = IF o.InCluster THEN "inCluster" ELSE "path"
  /\ UNCHANGED <<kFailing, kPath, kClient, kErr>>

\* The in-cluster branch: s.InClusterConfig().
K8sInClusterConfig ==
  /\ kpc = "inCluster"
  /\ LET r == Mock("InClusterConfig" \in kFailing, "config")
     IN IF r.err # NoError
          THEN K8sReturn(NilClient, Wrap("creating Kubernetes in-cluster client config", r.err))
          ELSE /\ kpc' = "clientset"
               /\ UNCHANGED <<kOptions, kFailing, kPath, kClient, kErr>>

\* The kubeconfig path: empty, the default one (under the home directory),
\* or the one given.
K8sConfigPath ==
  /\ kpc = "path"
  /\ IF kOptions.KubeconfigPath = ""
       THEN K8sReturn(NilClient, ErrKubeconfigNotSet)
       ELSE IF kOptions.KubeconfigPath = DefaultPath
         THEN LET r == Mock("OsUserHomeDir" \in kFailing, "home")
              IN IF r.err # NoError
                   THEN K8sReturn(NilClient, Wrap("obtaining user's home dir", r.err))
                   ELSE /\ kPath' = "home/.kube/config"
                        /\ kpc' = "build"
                        /\ UNCHANGED <<kOptions, kFailing, kClient, kErr>>
         ELSE /\ kPath' = kOptions.KubeconfigPath
              /\ kpc' = "build"
              /\ UNCHANGED <<kOptions, kFailing, kClient, kErr>>

\* s.BuildConfigFromFlags("", *kubeconfig).
K8sBuildConfig ==
  /\ kpc = "build"
  /\ LET r == Mock("BuildConfigFromFlags" \in kFailing, "config")
     IN IF r.err # NoError
          THEN K8sReturn(NilClient, Wrap("creating Kubernetes client config", r.err))
          ELSE /\ kpc' = "clientset"
               /\ UNCHANGED <<kOptions, kFailing, kPath, kClient, kErr>>

\* s.NewForConfig(config), and the client built around the clientset.
K8sNewForConfig ==
  /\ kpc = "clientset"
  /\ LET r == Mock("NewForConfig" \in kFailing, "clientset")
     IN IF r.err # NoError
          THEN K8sReturn(NilClient, Wrap("creating Kubernetes clientset", r.err))
          ELSE K8sReturn([nil |-> FALSE, clientset |-> r.val, logger |-> "logger"], NoError)

K8sNext ==
  \/ K8sDefaults /\ UNCHANGED <<rcVars, smVars, psVars, dsVars, argVars>>
  \/ K8sInClusterConfig /\ UNCHANGED <<rcVars, smVars, psVars, dsVars, argVars>>
  \/ K8sConfigPath /\ UNCHANGED <<rcVars, smVars, psVars, dsVars, argVars>>
  \/ K8sBuildConfig /\ UNCHANGED <<rcVars, smVars, psVars, dsVars, argVars>>
  \/ K8sNewForConfig /\ UNCHANGED <<rcVars, smVars, psVars, dsVars, argVars>>

K8sSpec == K8sInit /\ [][K8sNext]_vars

\* ================================================================ claims
\* The largest distance between two entries of a snapshot, by brute force.
MaxPairDistance(ov) ==
  LET ds == {0} \cup {distance(ov[p], ov[q]).val : p, q \in 1..Len(ov)}
  IN CHOOSE d \in ds : \A e \in ds : e <= d

\* C1: the wait for the chunk on B always ends, whatever HasChunk answers:
\* once Run is at the head of that loop it eventually leaves the loop.
C1_PollOnBEnds == (pc = "pollB") ~> (pc \notin {"pollB", "hasB"})

\* C2: each polling loop makes at most maxIterations (10) calls per
\* iteration: HasChunk on B, and DownloadChunk on C after the re-upload.
C2_AtMostTenAttempts == hasCalls <= maxIterations /\ dlCalls <= maxIterations

\* C3: when the downloads from C after the re-upload keep failing, Run
\* returns the poll error once the bound is exhausted, goes no further, and
\* records no repair for that chunk; the repair metrics are recorded only by
\* a download from C that returned the chunk's own bytes.
C3_FailedRecoveryIsFatal ==
  /\ [](result = "errPollC" =>
          pc = "done" /\ repaired = i /\ reuploaded /\ dlCalls > maxIterations)
  /\ [][/\ (pc = "pollC" /\ dlCalls > maxIterations) =>
             (pc' = "done" /\ result' = "errPollC" /\ i' = i /\ repaired' = repaired)
        /\ pc # "done"
        /\ repaired' # repaired =>
             (pc = "downloadC3" /\ lastData' = chunk.data /\ repaired' = repaired + 1)
       ]_vars

C3_Witness == pc = "done" /\ result = "errPollC" /\ reuploaded /\ removed = 1..Len(overlays)

\* C4: when getNodes has returned without error, A, B and C are three
\* different nodes, A and C are at the largest distance of the snapshot, and
\* B is the node closest to the chunk's address; a draw whose closest node
\* is A or C is not kept.
C4_RolesDistinct ==
  /\ pc = "overlayA" =>
       /\ Len(overlays) >= minNodesRequired
       /\ {nodeA, nodeB, nodeC} \subseteq 1..Len(overlays)
       /\ nodeA # nodeB /\ nodeB # nodeC /\ nodeA # nodeC
       /\ distance(overlays[nodeA], overlays[nodeC]).val = MaxPairDistance(overlays)
       /\ \A n \in 1..Len(overlays) :
            distance(overlays[nodeB], chunk.addr).val
              <= distance(overlays[n], chunk.addr).val
  /\ (pc = "drawB" /\ cand # NoChunk) =>
       /\ chunk = NoChunk
       /\ \E n \in 1..Len(overlays) :
            /\ overlays[n] \in {overlayA, overlayC}
            /\ \A m \in 1..Len(overlays) :
                 distance(overlays[n], cand.addr).val
                   <= distance(overlays[m], cand.addr).val

C4_Witness ==
  pc = "overlayA" /\ Len(overlays) > minNodesRequired /\ nodeB # Nil /\ chunk # NoChunk

\* C5: the two addresses findFarthestNodes returns are at the largest
\* distance found among all pairs of the snapshot.
C5_FarthestIsMaximal ==
  (pc = "drawB" /\ cand = NoChunk) =>
     /\ \E p, q \in 1..Len(overlays) : overlays[p] = overlayA /\ overlays[q] = overlayC
     /\ distance(overlayA, overlayC).val = MaxPairDistance(overlays)

C5_Witness ==
  /\ pc = "drawB" /\ cand = NoChunk /\ Len(overlays) > minNodesRequired
  /\ distance(overlayA, overlayC).val = 255

\* C6: findFarthestNodes returns the same ordered pair whatever order the
\* snapshot is iterated in.
C6_FarthestOrderIndependent ==
  (pc = "drawB" /\ cand = NoChunk) =>
     \A outer \in Orders(Len(overlays)), inner \in Orders(Len(overlays)) :
        LET far == findFarthestNodes(overlays, outer, inner)
        IN far.a = overlayA /\ far.c = overlayC

\* C7: two runs of the smoke check with the same seed, cluster and network
\* outcomes upload the same bytes from the same uploader to the same
\* downloader in every iteration.
C7_SmokeDeterministic ==
  spc \in {"upload", "download"} =>
     txData2 = txData /\ txIdx2 = txIdx /\ rxIdx2 = rxIdx

\* C8: the recovery-trigger download and the re-upload happen only after
\* RemoveChunk succeeded on every node; a failing RemoveChunk ends Run with
\* neither of them done.
C8_DeleteEverywhereFirst ==
  /\ (triggered \/ reuploaded \/ pc \in {"trigger", "reupload", "pin", "pollC", "downloadC3"})
       => removed = 1..Len(overlays)
  /\ result = "errRemove" => pc = "done" /\ ~triggered /\ ~reuploaded
  /\ reuploaded => triggered

C8_Witness ==
  pc = "pin" /\ triggered /\ reuploaded /\ removed = 1..Len(overlays) /\ Len(overlays) > minNodesRequired

\* C9: the trigger download is accepted only when it succeeds or fails with
\* "try again later" for this very chunk; on any other error Run returns
\* "chunk recovery not triggered" and the chunk is not uploaded again.
C9_TriggerAccepted ==
  LET accepted == trigErr = NoError \/ trigErr = TryAgainLater(chunk.addr)
  IN /\ (triggered /\ ~accepted) =>
          pc = "done" /\ result = "errNotTriggered" /\ ~reuploaded
     /\ result = "errNotTriggered" => triggered /\ ~accepted
     /\ reuploaded => triggered /\ accepted

C9_Witness ==
  /\ result = "errNotTriggered" /\ ~reuploaded
  /\ trigErr # NoError /\ trigErr[3] = "try again later" /\ trigErr[2] # chunk.addr

\* C10: a download from C (before the deletion or after the recovery) that
\* returns bytes other than the chunk's ends Run with an error at once:
\* nothing runs afterwards and no repair is recorded for the chunk.
C10_Mismatch == chunk # NoChunk /\ lastData # 0 /\ lastData # chunk.data

C10_MismatchIsFatal ==
  /\ [](C10_Mismatch => pc = "done" /\ result = "errData" /\ repaired = i)
  /\ [][~C10_Mismatch]_vars

C10_Witness == C10_Mismatch /\ result = "errData" /\ reuploaded /\ dlCalls > 0

C12_FailuresAreNotFatal ==
  /\ [](clusterSize >= 2 =>
          /\ sresult \in {"running", "nil", "errNodesClients", "errInvalidOptions"}
          /\ sresult = "nil" => ctxDone)
  /\ [][/\ sresult' \in {"errNodesClients", "errInvalidOptions"} => spc = "start"
        /\ (spc \in {"content", "upload", "download"} /\ spc' = "done") =>
              ctxDone /\ sresult' = "nil"
        /\ (spc = "upload" /\ ~Retry(txDuration, retries) /\ txDuration = 0
              /\ spc' # spc) =>
              spc' = "iterTop" /\ iter' = iter + 1 /\ sresult' = "running"
        /\ (spc = "download" /\ ~Retry(rxDuration, retries) /\ spc' # spc) =>
              spc' = "iterTop" /\ iter' = iter + 1 /\ sresult' = "running"
       ]_vars

C12_Witness ==
  /\ lastOutcome = "downloadFailed" /\ iter = 1 /\ sresult = "running"
  /\ spc = "upload" /\ uploadErrors = 2 /\ ~ctxDone

\* C13: an iteration makes at most 3 upload and at most 3 download
\* attempts; no attempt follows a successful one, so an operation that
\* first succeeds on attempt k has made k attempts (k - 1 errors), and a
\* phase is given up for lack of success only after exactly 3 attempts.
C13_RetryBound ==
  /\ [](/\ uploadAttempts <= 3 /\ downloadAttempts <= 3
        /\ txDuration > 0 => uploadAttempts = uploadErrors + 1
        /\ rxDuration > 0 => downloadAttempts = downloadErrors + 1)
  /\ [][/\ uploadAttempts' > uploadAttempts =>
              txDuration = 0 /\ uploadAttempts' = uploadAttempts + 1
        /\ downloadAttempts' > downloadAttempts =>
              rxDuration = 0 /\ downloadAttempts' = downloadAttempts + 1
        /\ (spc = "upload" /\ spc' = "iterTop") =>
              uploadAttempts = 3 /\ uploadErrors = 3
        /\ (spc = "download" /\ spc' = "iterTop" /\ rxDuration = 0) =>
              downloadAttempts = 3 /\ downloadErrors = 3
       ]_vars

C13_Witness ==
  /\ spc = "download" /\ uploadAttempts = 2 /\ uploadErrors = 1
  /\ downloadAttempts = 3 /\ downloadErrors = 2 /\ rxDuration > 0

\* C14: when the context is already done at the cancellation test at the
\* top of an iteration, before an upload attempt or before a download
\* attempt, Run returns nil there: the attempt is not made and nothing is
\* added to the attempt, error and mismatch metrics.
C14_CancelledMeansNoAttempt ==
  [][(/\ ctxDone
      /\ \/ spc = "iterTop"
         \/ spc = "upload" /\ Retry(txDuration, retries)
         \/ spc = "download" /\ Retry(rxDuration, retries))
       => (spc' = "done" /\ sresult' = "nil" /\ UNCHANGED metricVars)
    ]_vars

\* C15: every draw of an iteration gives two different node indices of the
\* cluster, the first two entries of the permutation drawn from the seeded
\* generator, so uploader and downloader differ in every iteration that
\* uploads; an iteration restarted for a coinciding pair counts nothing.
C15_PairIsDistinct ==
  /\ [](/\ (clusterSize >= 2 /\ rnd > 0) =>
             /\ txIdx # rxIdx
             /\ {txIdx, rxIdx} \subseteq 0..(clusterSize - 1)
             /\ txIdx = Perm(seed, rnd - clusterSize, clusterSize)[0]
             /\ rxIdx = Perm(seed, rnd - clusterSize, clusterSize)[1]
        /\ lastOutcome = "samePeer" => spc = "done" \/ metricVars = <<0, 0, 0, 0, 0>>)
  /\ [][(spc = "iterTop" /\ spc' = "iterTop") => UNCHANGED metricVars]_vars

C15_Witness ==
  /\ spc = "upload" /\ uploadAttempts = 1 /\ clusterSize > 2 /\ iter = 1
  /\ txIdx # rxIdx /\ txIdx > 0

\* The nodes of a snapshot strictly closer to target than node n.
Closer(ov, target, n) ==
  {m \in 1..Len(ov) : distance(ov[m], target).val < distance(ov[n], target).val}

\* C16: the scan for a second holder starts only once the node closest to
\* the chunk answered `true` to one of at most 3 HasChunk calls; when the
\* 3 calls all answered `false` (or failed) checkLightChunks returns "not
\* found in the closest node" at once: nothing was scanned and no further
\* chunk is generated or uploaded.
C16_ScanAfterClosestConfirmed ==
  /\ [](/\ polls <= 3
        /\ (ppc = "scan" \/ queried # <<>> \/ holder # Nil) =>
             /\ closestSynced /\ polls >= 1
             /\ closestName \in 1..Len(flatOverlays)
             /\ Closer(flatOverlays, lightChunk.addr, closestName) = {}
        /\ presult = "errNotFoundInClosest" =>
             /\ ppc = "done" /\ polls = 3 /\ ~closestSynced
             /\ queried = <<>> /\ scanned = 0 /\ holder = Nil)
  /\ [][/\ (ppc = "pollClosest" /\ polls = 3 /\ ~synced /\ ppc' # ppc) =>
              presult' = "errNotFoundInClosest"
        /\ presult = "errNotFoundInClosest" =>
              UNCHANGED <<startedChunks, uploadTries, lightChunk>>
       ]_vars

C16_Witness ==
  /\ ppc = "scan" /\ polls = 3 /\ closestSynced /\ scanned = 0
  /\ Len(flatOverlays) >= 3 /\ closestName > 1

\* C17: a chunk is accepted only on the answer `true` of a node other than
\* the closest one; the scan asks the other nodes one by one in ascending
\* distance from the chunk, asks nobody after the first `true`, and when
\* every other node was asked without a `true` checkLightChunks returns
\* "not replicated".
C17_ReplicatedOnSecondNode ==
  /\ [](/\ \A k \in 1..Len(queried) :
             /\ queried[k] # closestName
             /\ Cardinality(Closer(flatOverlays, lightChunk.addr, queried[k])) = k
        /\ holder # Nil =>
             /\ synced /\ holder # closestName
             /\ queried # <<>> /\ holder = queried[Len(queried)]
        /\ presult = "errNotReplicated" =>
             /\ ppc = "done" /\ holder = Nil /\ closestSynced
             /\ Len(queried) = Len(flatOverlays) - 1)
  /\ [][/\ passedChunks' # passedChunks =>
              /\ ppc = "scan" /\ passedChunks' = passedChunks + 1
              /\ synced' /\ holder' # Nil /\ holder' # closestName
        /\ (queried' # queried /\ queried' # <<>>) => ppc = "scan" /\ holder = Nil
       ]_vars

C17_Witness ==
  /\ holder # Nil /\ Len(queried) >= 2 /\ Len(flatOverlays) > 3
  /\ ppc = "chunkHead"

\* C18: the chunks are handled one at a time: a chunk is generated, and a
\* batch is asked for, only when every chunk generated before was found on
\* its closest node and on a second node; the first failing step ends the
\* run with its error and nothing is done afterwards; nil is returned only
\* when every chunk of every uploader was accepted.
C18_OneChunkAtATime ==
  /\ [](/\ startedChunks - passedChunks \in {0, 1}
        /\ ppc \in {"upload", "closest", "pollClosest", "scan"} =>
             startedChunks = passedChunks + 1
        /\ ppc \in {"nodeHead", "chunkHead"} => startedChunks = passedChunks
        /\ ppc = "done" <=> presult # "running"
        /\ presult = "nil" =>
             /\ passedChunks = startedChunks
             /\ passedChunks = UploadNodeCount * ChunksPerNode)
  /\ [][/\ startedChunks' # startedChunks =>
              /\ passedChunks = startedChunks
              /\ startedChunks > 0 =>
                   closestSynced /\ holder # Nil /\ holder # closestName
        /\ (ppc = "upload" /\ uploadTries = 3 /\ ppc' # ppc) =>
              ppc' = "done" /\ presult' = "errUpload"
        /\ (ppc = "scan" /\ scanned = Len(flatOverlays) /\ ppc' # ppc) =>
              ppc' = "done" /\ presult' = "errNotReplicated"
        /\ ppc = "done" => UNCHANGED psVars
       ]_vars

C18_Witness ==
  /\ presult = "nil" /\ passedChunks = UploadNodeCount * ChunksPerNode
  /\ passedChunks > 1 /\ Len(flatOverlays) >= 2

\* C19: a run whose context was cancelled before or while it polls does not
\* return the error of the interrupted chunk ("not found in the closest
\* node", "not replicated").
C19_CancelIsNotAFailure ==
  lctxDone => presult \notin {"errNotFoundInClosest", "errNotReplicated"}

\* C20: for two addresses of the same length distance returns the same
\* value in both argument orders, and the value is 0 exactly when the
\* addresses are equal.
C20_DistanceSymmetricZeroIffEqual ==
  (dpc = "returned" /\ Len(argX) = Len(argY)) =>
     /\ ~dist.err /\ ~distRev.err
     /\ dist.val = distRev.val
     /\ dist.val = 0 <=> argX = argY

C20_Witness ==
  /\ dpc = "returned" /\ Len(argX) = MaxAddrLen /\ Len(argY) = MaxAddrLen
  /\ argX # argY /\ argX[1] = argY[1] /\ dist.val = 129

\* C21: distance fails, and returns no value, exactly when its operands
\* differ in length (two empty operands do not fail); findFarthestNodes on
\* a node group holding addresses of different lengths returns the error
\* and no pair.
C21_LengthMismatchFails ==
  /\ dpc \in {"returned", "scanned"} =>
       /\ dist.err <=> Len(argX) # Len(argY)
       /\ dist.err => dist.val = NoDistance
       /\ ~dist.err => dist.val >= 0
  /\ dpc = "scanned" =>
       /\ farPair.err <=> \E p, q \in 1..3 : Len(FarSnapshot[p]) # Len(FarSnapshot[q])
       /\ farPair.err => farPair.a = ZeroAddress /\ farPair.c = ZeroAddress

C21_Witness ==
  /\ dpc = "scanned" /\ farPair.err /\ dist.err /\ dist.val = NoDistance
  /\ Len(argX) = 0 /\ Len(argY) = MaxAddrLen

\* C22: a Run of the recovery check or of the smoke check that is handed
\* an opts value of another type returns "invalid options type" as its
\* first step: no node group or client was asked for (so none of their
\* errors is returned), no random value was drawn and nothing else was done.
C22_InvalidOptionsFirst ==
  /\ (pc # "idle" /\ opts # "chunkrepair.Options") =>
       /\ pc \in {"start", "done"}
       /\ result = IF pc = "done" THEN "errInvalidOptions" ELSE "running"
       /\ i = 0 /\ cand = NoChunk /\ chunk = NoChunk
       /\ nodeA = Nil /\ nodeB = Nil /\ nodeC = Nil
       /\ hasCalls = 0 /\ dlCalls = 0 /\ removed = {}
       /\ ~triggered /\ ~reuploaded /\ repaired = 0
  /\ (spc # "idle" /\ opts # "smoke.Options") =>
       /\ spc \in {"start", "done"}
       /\ sresult = IF spc = "done" THEN "errInvalidOptions" ELSE "running"
       /\ rnd = 0 /\ iter = 0 /\ txData = <<>>
       /\ metricVars = <<0, 0, 0, 0, 0>>
  /\ result = "errInvalidOptions" => opts # "chunkrepair.Options"
  /\ sresult = "errInvalidOptions" => opts # "smoke.Options"

C22_Witness ==
  spc = "done" /\ sresult = "errInvalidOptions" /\ opts = "chunkrepair.Options"

\* The setup functions a call with options o needs.
NeededSetup(o) ==
  IF o.InCluster THEN {"InClusterConfig", "NewForConfig"}
  ELSE IF o.KubeconfigPath = DefaultPath
    THEN {"OsUserHomeDir", "BuildConfigFromFlags", "NewForConfig"}
  ELSE {"BuildConfigFromFlags", "NewForConfig"}

\* The text NewClient puts in front of the error of a failed function.
StepText(f) ==
  CASE f = "InClusterConfig" -> "creating Kubernetes in-cluster client config"
    [] f = "OsUserHomeDir" -> "obtaining user's home dir"
    [] f = "BuildConfigFromFlags" -> "creating Kubernetes client config"
    [] f = "NewForConfig" -> "creating Kubernetes clientset"

C24_DownloadFollowsUpload ==
  /\ [](downloadAttempts > 0 =>
          /\ waited /\ txDuration > 0
          /\ uploadAttempts = uploadErrors + 1
          /\ address = txData /\ rxAddress = address)
  /\ [](waited => txDuration > 0 /\ uploadAttempts = uploadErrors + 1)
  /\ [](uploadErrors = 3 => downloadAttempts = 0 /\ ~waited)
  /\ [][/\ downloadAttempts' > downloadAttempts =>
             /\ spc = "download" /\ waited /\ txDuration > 0
             /\ rxAddress' = address /\ address' = address
        /\ (uploadErrors = 3 /\ spc' # spc) =>
             spc' = "done" \/ (spc' = "iterTop" /\ iter' = iter + 1)
        /\ (spc = "download" /\ spc' = spc) => address' = address]_vars

\* A second download attempt of an iteration, made after two failed uploads
\* and a successful third.
C24_Witness ==
  /\ spc = "download" /\ downloadAttempts = 2 /\ uploadErrors = 2
  /\ uploadAttempts = 3 /\ rxAddress = address /\ address # ZeroAddress


\* The loop of the smoke check's Run is under way.
InSmokeLoop == spc \in {"iterTop", "content", "upload", "download"}

\* C25: the smoke check ends.  On a cluster of two nodes or more, with every
\* call and wait returning, a run whose loop is under way returns nil within
\* finitely many steps of its context being done, whatever the uploads and
\* downloads did; it returns nothing before the context is done.
C25_ReturnsNilAfterDeadline ==
  /\ [][(InSmokeLoop /\ clusterSize >= 2 /\ spc' = "done") =>
          ctxDone /\ sresult' = "nil"]_vars
  /\ [](sresult = "nil" => ctxDone /\ spc = "done")
  /\ (InSmokeLoop /\ clusterSize >= 2 /\ ctxDone) ~>
       (spc = "done" /\ sresult = "nil")

\* Run returned nil after a whole iteration, on three nodes.
C25_Witness ==
  /\ spc = "done" /\ sresult = "nil" /\ ctxDone
  /\ clusterSize = 3 /\ iter = 1 /\ lastOutcome = "mismatch"


\* C26: while the replication check scans for one chunk, the slice of
\* excluded addresses only grows.  It starts as the address of the closest
\* node, which answered that it has the chunk; every pass appends the
\* address its query returned (the zero address when no node was left) and
\* drops nothing; the snapshot of overlays is the one taken at the start of
\* the run.  So no node is asked twice in a scan, the closest node is not
\* asked again, and at most (size of the snapshot - 1) nodes are asked.
C26_SkipPeersOnlyGrow ==
  /\ [][flatOverlays' = flatOverlays]_vars
  /\ [](ppc = "scan" =>
          /\ closestSynced
          /\ Len(skipPeers) = scanned + 1
          /\ skipPeers[1] = flatOverlays[closestName]
          /\ \A k \in 1..Len(queried) : flatOverlays[queried[k]] \in Range(skipPeers))
  /\ [](/\ \A p, q \in 1..Len(queried) : p # q => queried[p] # queried[q]
        /\ closestName \notin Range(queried)
        /\ Len(queried) <= scanned
        /\ (flatOverlays # <<>> => Len(queried) <= Len(flatOverlays) - 1))
  /\ [][(ppc = "scan" /\ scanned' = scanned + 1) =>
          /\ Len(skipPeers') = Len(skipPeers) + 1
          /\ SubSeq(skipPeers', 1, Len(skipPeers)) = skipPeers
          /\ IF queried' = queried
               THEN skipPeers'[Len(skipPeers')] = ZeroAddress
               ELSE LET n == queried'[Len(queried')]
                    IN /\ queried' = Append(queried, n)
                       /\ skipPeers'[Len(skipPeers')] = flatOverlays[n]
                       /\ flatOverlays[n] \notin Range(skipPeers)]_vars
  /\ [][(ppc = "scan" /\ scanned' = scanned) => skipPeers' = skipPeers]_vars

\* A scan of a snapshot of four nodes asked the three that are not the
\* closest, and its last pass found no node left.
C26_Witness ==
  /\ ppc = "scan" /\ Len(flatOverlays) = 4
  /\ scanned = 4 /\ Len(queried) = 3 /\ Len(skipPeers) = 5
  /\ skipPeers[5] = ZeroAddress


\* C27: the smoke check run on a cluster of fewer than 2 nodes ends with a
\* returned error and attempts no upload or download: unless its context is
\* done first, it does not crash on the first two entries of the
\* permutation, and what it returns is an error.
C27_SmallClusterIsAnError ==
  (clusterSize < 2 /\ ~ctxDone) =>
     /\ sresult # "panic"
     /\ spc = "done" => sresult # "nil"
     /\ uploadAttempts = 0 /\ downloadAttempts = 0


\* C28: the node the replication check accepts as the second holder of a
\* chunk is never the node that uploaded it, also when the uploader's
\* overlay is in the snapshot scanned.
C28_SecondHolderIsNotUploader ==
  [][(ppc = "scan" /\ holder' # Nil) => holder' # uploaderNode]_vars

====
